---- MODULE Spec2Model ----
(***************************************************************************)
(* Model of src/server.js: the MQTT telemetry handler with its pump        *)
(* automation (hysteresis thresholds + cooldown), the bounded history      *)
(* buffer and the manual command endpoint POST /api/command.               *)
(*                                                                         *)
(* Time is Date.now() in milliseconds.  The MQTT client library is not     *)
(* part of the repository: client.publish(topic, payload, cb) hands the    *)
(* payload to the transport and calls cb(err) at a moment and with an      *)
(* outcome the program does not control.  A publish is therefore an entry  *)
(* appended to `inflight`, and OnPublishDone runs its callback at any      *)
(* later point (also immediately, before any other event) with either      *)
(* outcome.                                                                *)
(***************************************************************************)
EXTENDS Integers, Sequences, FiniteSets, TLC

VARIABLES
    now,                  \* Date.now(), milliseconds
    latestSensorData,     \* server.js:110
    historicalData,       \* server.js:111
    lastPumpCommandTime,  \* server.js:118
    inflight,             \* publishes handed to the transport, callback not yet run
    responses,            \* responses[r]: HTTP statuses sent for request r of POST /api/command
    latestWeatherData,    \* server.js:126
    fetching,             \* axios.get requests of fetchWeatherData not yet settled
    accepted,             \* history variable: every reading pushed at server.js:176, in order
    dispatched,           \* history variable: when the last automated / manual publish was handed over
    step                  \* history variable: the handler that ran last, its input, what it saw

vars == <<now, latestSensorData, historicalData, lastPumpCommandTime,
          inflight, responses, latestWeatherData, fetching, accepted, dispatched, step>>

weatherVars == <<latestWeatherData, fetching>>

----------------------------------------------------------------------------
(* Program constants *)

MOISTURE_DRY_THRESHOLD == 700
MOISTURE_WET_THRESHOLD == 400
PUMP_COOLDOWN_SECONDS == 30
MsPerSecond == 1000
HistoryLimit == 200

SENSOR_DATA_TOPIC == "farm/plot1/sensor_data"
COMMAND_TOPIC == "farm/plot1/commands"

(* Bounds of the model *)

MaxTicks == 2
MaxMsgs == 2
MaxInflight == 2
MaxReqs == 1
MaxHistMsgs == 203
MaxPending == 2

CooldownMs == PUMP_COOLDOWN_SECONDS * MsPerSecond
TickMs == CooldownMs \div 2
StartMs == CooldownMs
MaxMs == StartMs + MaxTicks * TickMs

----------------------------------------------------------------------------
(* JavaScript values of the payload fields *)

Undef == [t |-> "undefined", v |-> 0]
Null == [t |-> "null", v |-> 0]
NaN == [t |-> "NaN", v |-> 0]
Num(n) == [t |-> "number", v |-> n]

\* A field that is a string in JS; Absent stands for the field not being there.
Absent == "<undefined>"

\* Mutant of OrDefault: a missing pump status is taken to be 'OFF'.
OrDefault_Off(x, d) == IF x = Absent \/ x = "" THEN "OFF" ELSE x

\* x || d for a string-or-undefined x: undefined and "" are falsy
OrDefault(x, d) == IF x = Absent \/ x = "" THEN d ELSE x

\* Mutant of Truthy: the handler does not validate the action at all.
Truthy_Always(x) == TRUE

\* if (action): undefined and "" are falsy
Truthy(x) == ~(x = Absent \/ x = "")

\* ToNumber for the comparison operators: null is 0, undefined is NaN
ToNumber(x) == IF x.t = "null" THEN Num(0) ELSE IF x.t = "number" THEN x ELSE NaN

\* a > b, a < b for a JS value a and a number b; a comparison with NaN is false
JsGt(a, b) == ToNumber(a).t = "number" /\ ToNumber(a).v > b
JsLt(a, b) == ToNumber(a).t = "number" /\ ToNumber(a).v < b

\* A number with one decimal digit, v in tenths (21.5 is Decimal(215)); a string that
\* spells the whole number n ("21"); a string that spells no number ("abc").
\* Num(n) is a whole number.  soilMoisture is only ever given whole numbers.
Decimal(v) == [t |-> "decimal", v |-> v]
Numeral(n) == [t |-> "numeral", v |-> n]
Text == [t |-> "text", v |-> 0]

\* What parseFloat and parseInt agree on: the argument is turned into a string and
\* its leading number is read.  A whole number and a string spelling one give that
\* number; null is read as "null" and, like any text, gives NaN.
ParseNumber(x) ==
    IF x.t = "number" THEN x
    ELSE IF x.t = "numeral" THEN Num(x.v)
    ELSE NaN

\* parseFloat keeps the decimals
ParseFloat(x) == IF x.t = "decimal" THEN x ELSE ParseNumber(x)

\* parseInt stops at the decimal point (the inputs are not negative)
ParseInt(x) == IF x.t = "decimal" THEN Num(x.v \div 10) ELSE ParseNumber(x)

Last(s) == s[Len(s)]
RemoveAt(s, i) == [j \in 1..(Len(s) - 1) |-> IF j < i THEN s[j] ELSE s[j + 1]]

----------------------------------------------------------------------------
(* Inbound MQTT messages.  kind "garbage": bytes JSON.parse rejects;       *)
(* kind "null": the JSON text null; kind "object": a JSON object `data`.   *)

NoData == [soilMoisture |-> Undef, pumpStatus |-> Absent,
           temperature |-> Undef, humidity |-> Undef]

Garbage == [kind |-> "garbage", data |-> NoData]
JsonNull == [kind |-> "null", data |-> NoData]
JsonObject(d) == [kind |-> "object", data |-> d]

\* Mutant of JsonParseThrows: the parser accepts any bytes (as an empty object).
JsonParseThrows_Never(message) == FALSE

\* JSON.parse(message.toString()) throws on bytes that are not JSON
JsonParseThrows(message) == message.kind = "garbage"

\* data.soilMoisture on a parsed null throws a TypeError
FieldAccessThrows(message) == message.kind = "null"

\* The object literal of server.js:168-174
MakeReading(data, date) ==
    [soilMoisture |-> data.soilMoisture,
     pumpStatus |-> OrDefault(data.pumpStatus, "UNKNOWN"),
     temperature |-> IF data.temperature # Undef THEN ParseFloat(data.temperature) ELSE Null,
     humidity |-> IF data.humidity # Undef THEN ParseInt(data.humidity) ELSE Null,
     timestamp |-> date]

\* Mutant of PushLimited: the length test is >= instead of >.
PushLimited_OffByOne(h, r) ==
    IF Len(Append(h, r)) >= HistoryLimit THEN Tail(Append(h, r)) ELSE Append(h, r)

\* Mutant of PushLimited: at the limit the newest reading is dropped (pop), not the
\* oldest (shift).
PushLimited_DropNewest(h, r) ==
    IF Len(Append(h, r)) > HistoryLimit THEN h ELSE Append(h, r)

\* historicalData.push(r); if (historicalData.length > 200) historicalData.shift()
PushLimited(h, r) ==
    IF Len(Append(h, r)) > HistoryLimit THEN Tail(Append(h, r)) ELSE Append(h, r)

\* Mutant of CanSendPumpCommand: the division by 1000 is missing, so milliseconds
\* are compared with seconds.
CanSendPumpCommand_Millis(currentTime, last) ==
    (currentTime - last) >= PUMP_COOLDOWN_SECONDS

\* Mutant of CanSendPumpCommand: once a command has been recorded no further one is
\* sent (the controller waits for its effect for ever).
CanSendPumpCommand_Once(currentTime, last) ==
    last = 0 /\ (currentTime - last) >= PUMP_COOLDOWN_SECONDS * MsPerSecond

\* canSendPumpCommand: (currentTime - lastPumpCommandTime) / 1000 >= PUMP_COOLDOWN_SECONDS
CanSendPumpCommand(currentTime, last) ==
    (currentTime - last) >= PUMP_COOLDOWN_SECONDS * MsPerSecond

NoCommand == "<none>"

\* Mutant of AutomationCommand: the two commands are swapped.
AutomationCommand_Swapped(moisture, pumpStatus, canSend) ==
    IF canSend
    THEN IF JsGt(moisture, MOISTURE_DRY_THRESHOLD) /\ pumpStatus = "OFF"
         THEN "TURN_PUMP_OFF"
         ELSE IF JsLt(moisture, MOISTURE_WET_THRESHOLD) /\ pumpStatus = "ON"
              THEN "TURN_PUMP_ON"
              ELSE NoCommand
    ELSE NoCommand

\* Mutant of AutomationCommand: the else-if branch that turns the pump off is missing.
AutomationCommand_NoOffBranch(moisture, pumpStatus, canSend) ==
    IF canSend /\ JsGt(moisture, MOISTURE_DRY_THRESHOLD) /\ pumpStatus = "OFF"
    THEN "TURN_PUMP_ON"
    ELSE NoCommand

\* Mutant of AutomationCommand: the thresholds are compared with >= and <=.
AutomationCommand_Inclusive(moisture, pumpStatus, canSend) ==
    IF canSend
    THEN IF ~JsLt(moisture, MOISTURE_DRY_THRESHOLD) /\ ToNumber(moisture).t = "number"
            /\ pumpStatus = "OFF"
         THEN "TURN_PUMP_ON"
         ELSE IF ~JsGt(moisture, MOISTURE_WET_THRESHOLD) /\ ToNumber(moisture).t = "number"
                 /\ pumpStatus = "ON"
              THEN "TURN_PUMP_OFF"
              ELSE NoCommand
    ELSE NoCommand

\* The if / else-if / else of server.js:189-213: the command to publish, if any
AutomationCommand(moisture, pumpStatus, canSend) ==
    IF canSend
    THEN IF JsGt(moisture, MOISTURE_DRY_THRESHOLD) /\ pumpStatus = "OFF"
         THEN "TURN_PUMP_ON"
         ELSE IF JsLt(moisture, MOISTURE_WET_THRESHOLD) /\ pumpStatus = "ON"
              THEN "TURN_PUMP_OFF"
              ELSE NoCommand
    ELSE NoCommand

\* A publish handed to client.publish whose callback has not run yet.
\* currentTime: the value the automation callback closes over (0 for a manual one);
\* req: the request whose res the manual callback closes over (0 for automation).
AutoPublish(cmd, currentTime) ==
    [kind |-> "auto", topic |-> COMMAND_TOPIC, command |-> cmd,
     currentTime |-> currentTime, req |-> 0]
ManualPublish(action, r) ==
    [kind |-> "manual", topic |-> COMMAND_TOPIC, command |-> action,
     currentTime |-> 0, req |-> r]

InitialSensorData ==
    [soilMoisture |-> Null, pumpStatus |-> "OFF", temperature |-> Null,
     humidity |-> Null, timestamp |-> 0]

\* What `step` records: the handler (op), its input (arg, and data for the payload of
\* a message), the publish whose callback ran (p), and lastPumpCommandTime as the
\* handler found it (before).
NoArg == "-"
NoPublish == [kind |-> "none", topic |-> NoArg, command |-> NoCommand,
              currentTime |-> 0, req |-> 0]
Step(op, arg, p) ==
    [op |-> op, arg |-> arg, p |-> p, before |-> lastPumpCommandTime, data |-> NoData]

----------------------------------------------------------------------------
(* Weather: fetchWeatherData, server.js:271-304.  A response of axios.get is      *)
(* named by its shape; a field value is a string, WUndefined when it is missing.  *)

WUndefined == "undefined"
WNull == "null"

InitialWeatherData ==
    [temperature |-> WNull, feels_like |-> WNull, description |-> WNull, icon |-> WNull,
     city |-> WNull, humidity |-> WNull, wind_speed |-> WNull, timestamp |-> 0]

\* "network": axios.get rejects (no connection, HTTP error status);
\* "text": the body is not a JSON object (data.main is undefined);
\* "nolist": data.main is there, data.weather is an empty array;
\* "sparse": main, weather[0] and wind are objects without the fields read;
\* "noname": everything is there but data.name;
\* "full-a", "full-b": two complete answers with different values.
WeatherShapes == {"network", "text", "nolist", "sparse", "noname", "full-a", "full-b"}

\* await axios.get(url) throws, or reading data.main.temp, data.weather[0].description
\* or data.wind.speed throws a TypeError
FetchThrows(shape) == shape \in {"network", "text", "nolist"}

\* The value of a leaf field of the answer
Leaf(shape, field) ==
    IF shape = "sparse" \/ (shape = "noname" /\ field = "name") THEN WUndefined
    ELSE IF shape = "full-b" THEN "b" ELSE "a"

\* The object literal of server.js:282-291
MakeWeather(shape, date) ==
    [temperature |-> Leaf(shape, "temp"), feels_like |-> Leaf(shape, "feels_like"),
     description |-> Leaf(shape, "description"), icon |-> Leaf(shape, "icon"),
     city |-> Leaf(shape, "name"), humidity |-> Leaf(shape, "humidity"),
     wind_speed |-> Leaf(shape, "speed"), timestamp |-> date]

----------------------------------------------------------------------------
Init ==
    /\ now = StartMs
    /\ latestSensorData = InitialSensorData
    /\ historicalData = <<>>
    /\ lastPumpCommandTime = 0
    /\ inflight = <<>>
    /\ responses = <<>>
    /\ accepted = <<>>
    /\ dispatched = [auto |-> 0, manual |-> 0]
    /\ latestWeatherData = InitialWeatherData
    /\ fetching = 1
    /\ step = Step("init", NoArg, NoPublish)

\* Time passes between two handlers.
Tick ==
    /\ now' = now + TickMs
    /\ step' = Step("tick", NoArg, NoPublish)
    /\ UNCHANGED weatherVars
    /\ UNCHANGED <<latestSensorData, historicalData, lastPumpCommandTime,
                   inflight, responses, accepted, dispatched>>

\* Mutant of OnMessage: the cooldown gates the store as well; a reading that arrives
\* during the cooldown is dropped.
OnMessage_GatedStore(topic, message) ==
    /\ step' = [Step("message", message.kind, NoPublish) EXCEPT !.data = message.data]
    /\ UNCHANGED weatherVars
    /\ IF JsonParseThrows(message)
          \/ (topic = SENSOR_DATA_TOPIC /\ FieldAccessThrows(message))
          \/ topic # SENSOR_DATA_TOPIC
          \/ ~CanSendPumpCommand(now, lastPumpCommandTime)
       THEN UNCHANGED <<now, latestSensorData, historicalData, lastPumpCommandTime,
                        inflight, responses, accepted, dispatched>>
       ELSE LET reading == MakeReading(message.data, now)
                cmd == AutomationCommand(reading.soilMoisture, reading.pumpStatus, TRUE)
            IN  /\ latestSensorData' = reading
                /\ historicalData' = PushLimited(historicalData, reading)
                /\ accepted' = Append(accepted, reading)
                /\ IF cmd # NoCommand
                   THEN /\ inflight' = Append(inflight, AutoPublish(cmd, now))
                        /\ dispatched' = [dispatched EXCEPT !.auto = now]
                   ELSE UNCHANGED <<inflight, dispatched>>
                /\ UNCHANGED <<now, lastPumpCommandTime, responses>>

\* client.on('message', ...), server.js:161-219, run to completion
OnMessage(topic, message) ==
    /\ step' = [Step("message", message.kind, NoPublish) EXCEPT !.data = message.data]
    /\ UNCHANGED weatherVars
    /\ IF JsonParseThrows(message)
          \/ (topic = SENSOR_DATA_TOPIC /\ FieldAccessThrows(message))
          \/ topic # SENSOR_DATA_TOPIC
       THEN \* catch (e): console.error only; or a topic the handler skips
            UNCHANGED <<now, latestSensorData, historicalData, lastPumpCommandTime,
                        inflight, responses, accepted, dispatched>>
       ELSE LET reading == MakeReading(message.data, now)
                currentTime == now
                cmd == AutomationCommand(reading.soilMoisture, reading.pumpStatus,
                           CanSendPumpCommand(currentTime, lastPumpCommandTime))
            IN  /\ latestSensorData' = reading
                /\ historicalData' = PushLimited(historicalData, reading)
                /\ accepted' = Append(accepted, reading)
                /\ IF cmd # NoCommand
                   THEN /\ inflight' = Append(inflight, AutoPublish(cmd, currentTime))
                        /\ dispatched' = [dispatched EXCEPT !.auto = now]
                   ELSE UNCHANGED <<inflight, dispatched>>
                /\ UNCHANGED <<now, lastPumpCommandTime, responses>>

\* Mutant of AfterAutoCallback: the callback does not look at err.
AfterAutoCallback_Always(err, currentTime, last) == currentTime

\* What the automation callback does to lastPumpCommandTime, server.js:194 and 202
AfterAutoCallback(err, currentTime, last) == IF ~err THEN currentTime ELSE last

\* Mutant of CommandStatus: the callback answers success without looking at err.
CommandStatus_AlwaysOk(err) == 200

\* The status the manual callback answers with, server.js:256-261
CommandStatus(err) == IF err THEN 500 ELSE 200

\* The callback of client.publish runs for inflight[i], with or without an error:
\* server.js:193-196 and 201-204 (automation), 255-262 (manual command)
OnPublishDone(i, err) ==
    LET p == inflight[i] IN
    /\ inflight' = RemoveAt(inflight, i)
    /\ IF p.kind = "auto"
       THEN /\ lastPumpCommandTime' = AfterAutoCallback(err, p.currentTime, lastPumpCommandTime)
            /\ UNCHANGED responses
       ELSE /\ responses' = [responses EXCEPT ![p.req] = Append(@, CommandStatus(err))]
            /\ UNCHANGED lastPumpCommandTime
    /\ step' = Step("callback", IF err THEN "error" ELSE "ok", p)
    /\ UNCHANGED weatherVars
    /\ UNCHANGED <<now, latestSensorData, historicalData, accepted, dispatched>>

\* Mutant of PostCommand: the line that resets lastPumpCommandTime is missing.
PostCommand_NoReset(action) ==
    /\ step' = Step("post", action, NoPublish)
    /\ UNCHANGED weatherVars
    /\ IF Truthy(action)
       THEN /\ inflight' = Append(inflight, ManualPublish(action, Len(responses) + 1))
            /\ responses' = Append(responses, <<>>)
            /\ dispatched' = [dispatched EXCEPT !.manual = now]
            /\ UNCHANGED <<now, latestSensorData, historicalData, accepted,
                           lastPumpCommandTime>>
       ELSE /\ responses' = Append(responses, <<400>>)
            /\ UNCHANGED <<now, latestSensorData, historicalData, lastPumpCommandTime,
                           inflight, accepted, dispatched>>

\* app.post('/api/command', ...), server.js:249-266; action is req.body.action
PostCommand(action) ==
    /\ step' = Step("post", action, NoPublish)
    /\ UNCHANGED weatherVars
    /\ IF Truthy(action)
       THEN /\ lastPumpCommandTime' = now
            /\ inflight' = Append(inflight, ManualPublish(action, Len(responses) + 1))
            /\ responses' = Append(responses, <<>>)
            /\ dispatched' = [dispatched EXCEPT !.manual = now]
            /\ UNCHANGED <<now, latestSensorData, historicalData, accepted>>
       ELSE /\ responses' = Append(responses, <<400>>)
            /\ UNCHANGED <<now, latestSensorData, historicalData, lastPumpCommandTime,
                           inflight, accepted, dispatched>>

\* fetchWeatherData up to its await: the timer of server.js:304 fires, axios.get is sent
FetchWeatherStart ==
    /\ fetching' = fetching + 1
    /\ step' = Step("fetch", NoArg, NoPublish)
    /\ UNCHANGED <<now, latestSensorData, historicalData, lastPumpCommandTime,
                   inflight, responses, accepted, dispatched, latestWeatherData>>

\* fetchWeatherData after its await: the answer has the given shape, server.js:279-298
FetchWeatherDone(shape) ==
    /\ fetching > 0
    /\ fetching' = fetching - 1
    /\ latestWeatherData' =
          IF FetchThrows(shape) THEN latestWeatherData ELSE MakeWeather(shape, now)
    /\ step' = Step("weather", shape, NoPublish)
    /\ UNCHANGED <<now, latestSensorData, historicalData, lastPumpCommandTime,
                   inflight, responses, accepted, dispatched>>

\* app.get('/api/data/history'): res.json([...historicalData])
HistoryResponse == historicalData

----------------------------------------------------------------------------
(* Inputs.  The client subscribes to SENSOR_DATA_TOPIC only (server.js:151), *)
(* so that is the only topic a message arrives on.                           *)

Moistures == {Num(MOISTURE_WET_THRESHOLD - 1), Num(MOISTURE_WET_THRESHOLD),
              Num(MOISTURE_DRY_THRESHOLD), Num(MOISTURE_DRY_THRESHOLD + 1)}
PumpStatuses == {"ON", "OFF", Absent}
PayloadsOf(M, P) == [soilMoisture : M, pumpStatus : P, temperature : {Undef}, humidity : {Undef}]

\* every threshold case with every reported status
Payloads == PayloadsOf(Moistures, PumpStatuses)
\* the dry and the wet side with the two reported statuses
ControlPayloads == PayloadsOf({Num(MOISTURE_WET_THRESHOLD - 1), Num(MOISTURE_DRY_THRESHOLD + 1)},
                              {"ON", "OFF"})
MessagesOf(D) == {Garbage, JsonNull} \cup {JsonObject(d) : d \in D}
Actions == {Absent, "", "TURN_PUMP_OFF"}

Receive(D) ==
    /\ Len(accepted) < MaxMsgs
    /\ Len(inflight) < MaxInflight
    /\ \E message \in MessagesOf(D) : OnMessage(SENSOR_DATA_TOPIC, message)

Callback == \E i \in 1..Len(inflight), err \in BOOLEAN : OnPublishDone(i, err)

Request ==
    /\ Len(responses) < MaxReqs
    /\ Len(inflight) < MaxInflight
    /\ \E action \in Actions : PostCommand(action)

Clock == now + TickMs <= MaxMs /\ Tick

\* All handlers: telemetry, publish callbacks, manual commands.
Next == Clock \/ Receive(ControlPayloads) \/ Callback \/ Request

Spec == Init /\ [][Next]_vars

\* Telemetry and its publish callbacks alone, over every threshold case.
NextTelemetry == Clock \/ Receive(Payloads) \/ Callback

SpecTelemetry == Init /\ [][NextTelemetry]_vars

\* A long run of readings, all different, all inside the dead band.
StreamPayload(n) ==
    [soilMoisture |-> Num(MOISTURE_WET_THRESHOLD + n), pumpStatus |-> "ON",
     temperature |-> Undef, humidity |-> Undef]

NextHistory ==
    /\ Len(accepted) < MaxHistMsgs
    /\ \E message \in {Garbage, JsonObject(StreamPayload(Len(accepted)))} :
           OnMessage(SENSOR_DATA_TOPIC, message)

SpecHistory == Init /\ [][NextHistory]_vars

\* The weather refresh next to telemetry: the timer starts a refresh while fewer than
\* MaxPending answers are awaited, and an answer of any shape arrives.
DryPayloads == PayloadsOf({Num(MOISTURE_DRY_THRESHOLD + 1)}, {"OFF"})

FetchTimer == fetching < MaxPending /\ FetchWeatherStart

FetchAnswer == \E shape \in WeatherShapes : FetchWeatherDone(shape)

NextWeather == Clock \/ Receive(DryPayloads) \/ Callback \/ FetchTimer \/ FetchAnswer

SpecWeather == Init /\ [][NextWeather]_vars

\* Readings that differ in their optional fields: missing, null, a whole number, a
\* number with decimals, a string spelling a number, any other string.
FieldValues == {Undef, Null, Num(21), Decimal(215), Numeral(21), Text}
FieldPayloads ==
    [soilMoisture : {Num(MOISTURE_WET_THRESHOLD)}, pumpStatus : {"ON"},
     temperature : FieldValues, humidity : FieldValues]

NextFields == Receive(FieldPayloads)

SpecFields == Init /\ [][NextFields]_vars

----------------------------------------------------------------------------
(* Vocabulary of the properties *)

\* This step is the message handler accepting a reading (it is then latestSensorData').
Processed == step'.op = "message" /\ accepted' = Append(accepted, latestSensorData')

\* The state is the one a message handler left after accepting a reading.
JustProcessed ==
    /\ step.op = "message" /\ step.arg = "object"
    /\ Len(accepted) > 0 /\ Last(accepted) = latestSensorData

\* This step is the publish callback of an automated command.
AutoCallback == step'.op = "callback" /\ step'.p.kind = "auto"

IsDry(r) == r.soilMoisture.t = "number" /\ r.soilMoisture.v > MOISTURE_DRY_THRESHOLD
IsWet(r) == r.soilMoisture.t = "number" /\ r.soilMoisture.v < MOISTURE_WET_THRESHOLD
InDeadBand(r) ==
    /\ r.soilMoisture.t = "number"
    /\ r.soilMoisture.v >= MOISTURE_WET_THRESHOLD
    /\ r.soilMoisture.v <= MOISTURE_DRY_THRESHOLD

\* Milliseconds since the value lastPumpCommandTime holds
Elapsed == now - lastPumpCommandTime

\* When a pump command, automated or manual, was last handed to the transport (0: never)
LastHandOff ==
    IF dispatched.auto > dispatched.manual THEN dispatched.auto ELSE dispatched.manual

PublishesNothing == inflight' = inflight
PublishesOnly(cmd) == inflight' = Append(inflight, AutoPublish(cmd, now))

----------------------------------------------------------------------------
\* C1 (as stated): from the moment a pump command is handed to the transport until
\* 30 s later, processing a reading publishes nothing.
C1_QuietAfterHandOff ==
    [][(Processed /\ LastHandOff > 0 /\ now - LastHandOff < CooldownMs)
        => PublishesNothing]_vars

\* C1 (amended): a reading processed while now - lastPumpCommandTime < 30 s, whatever
\* its moisture and reported pump status, publishes nothing and leaves
\* lastPumpCommandTime alone.
C1_QuietDuringCooldown ==
    [][(Processed /\ Elapsed < CooldownMs)
        => PublishesNothing /\ lastPumpCommandTime' = lastPumpCommandTime]_vars

\* A dry reading with the pump reported OFF was processed inside the cooldown of a
\* recorded command and nothing was published.
C1_Witness ==
    /\ JustProcessed
    /\ IsDry(latestSensorData) /\ latestSensorData.pumpStatus = "OFF"
    /\ step.before > 0 /\ now - step.before < CooldownMs
    /\ lastPumpCommandTime = step.before
    /\ inflight = <<>>

\* C2: an accepted reading with moisture > 700, pump reported OFF and the cooldown
\* elapsed publishes exactly one command, TURN_PUMP_ON, and does not itself move
\* lastPumpCommandTime; lastPumpCommandTime takes that reading's time only in the
\* publish callback, and only when the callback reports no error.
C2_DryTurnsPumpOn ==
    [][/\ (Processed /\ IsDry(latestSensorData') /\ latestSensorData'.pumpStatus = "OFF"
             /\ Elapsed >= CooldownMs)
          => PublishesOnly("TURN_PUMP_ON") /\ lastPumpCommandTime' = lastPumpCommandTime
       /\ (AutoCallback /\ step'.p.command = "TURN_PUMP_ON")
          => lastPumpCommandTime' =
                IF step'.arg = "ok" THEN step'.p.currentTime ELSE lastPumpCommandTime
      ]_vars

\* The TURN_PUMP_ON of a dry reading was confirmed and lastPumpCommandTime is that
\* reading's time.
C2_Witness ==
    /\ step.op = "callback" /\ step.arg = "ok"
    /\ step.p = AutoPublish("TURN_PUMP_ON", latestSensorData.timestamp)
    /\ IsDry(latestSensorData) /\ latestSensorData.pumpStatus = "OFF"
    /\ step.before + CooldownMs <= step.p.currentTime
    /\ lastPumpCommandTime = latestSensorData.timestamp

\* C3: an accepted reading with moisture < 400, pump reported ON and the cooldown
\* elapsed publishes exactly one command, TURN_PUMP_OFF, and does not itself move
\* lastPumpCommandTime; lastPumpCommandTime takes that reading's time only in the
\* publish callback, and only when the callback reports no error.
C3_WetTurnsPumpOff ==
    [][/\ (Processed /\ IsWet(latestSensorData') /\ latestSensorData'.pumpStatus = "ON"
             /\ Elapsed >= CooldownMs)
          => PublishesOnly("TURN_PUMP_OFF") /\ lastPumpCommandTime' = lastPumpCommandTime
       /\ (AutoCallback /\ step'.p.command = "TURN_PUMP_OFF")
          => lastPumpCommandTime' =
                IF step'.arg = "ok" THEN step'.p.currentTime ELSE lastPumpCommandTime
      ]_vars

\* The TURN_PUMP_OFF of a wet reading was confirmed and lastPumpCommandTime is that
\* reading's time.
C3_Witness ==
    /\ step.op = "callback" /\ step.arg = "ok"
    /\ step.p = AutoPublish("TURN_PUMP_OFF", latestSensorData.timestamp)
    /\ IsWet(latestSensorData) /\ latestSensorData.pumpStatus = "ON"
    /\ step.before + CooldownMs <= step.p.currentTime
    /\ lastPumpCommandTime = latestSensorData.timestamp

\* C4: an accepted reading with moisture in [400, 700], both ends included, publishes
\* nothing and leaves lastPumpCommandTime alone, whatever the reported pump status
\* and whether or not the cooldown has elapsed.
C4_DeadBandIsQuiet ==
    [][(Processed /\ InDeadBand(latestSensorData'))
        => PublishesNothing /\ lastPumpCommandTime' = lastPumpCommandTime]_vars

\* A reading at the dry threshold itself, pump reported OFF, was processed with the
\* cooldown elapsed and nothing was published.
C4_Witness ==
    /\ JustProcessed
    /\ latestSensorData.soilMoisture = Num(MOISTURE_DRY_THRESHOLD)
    /\ latestSensorData.pumpStatus = "OFF"
    /\ now - step.before >= CooldownMs
    /\ lastPumpCommandTime = step.before
    /\ inflight = <<>>

\* The command the thresholds ask for on reading r, the cooldown aside
Wanted(r) ==
    IF IsDry(r) /\ r.pumpStatus = "OFF" THEN "TURN_PUMP_ON"
    ELSE IF IsWet(r) /\ r.pumpStatus = "ON" THEN "TURN_PUMP_OFF"
    ELSE NoCommand

\* C5: on the automation path lastPumpCommandTime is written only by the publish
\* callback of an automated command and only when it reports no error; it then
\* becomes the processing time of the reading that triggered the command.  A callback
\* with an error changes nothing, so a reading that then meets the firing condition
\* with the cooldown elapsed publishes the command again.
C5_CooldownOnlyOnConfirmedPublish ==
    [][/\ Processed => lastPumpCommandTime' = lastPumpCommandTime
       /\ AutoCallback =>
            /\ UNCHANGED <<now, latestSensorData, historicalData, responses>>
            /\ IF step'.arg = "ok"
               THEN /\ lastPumpCommandTime' = step'.p.currentTime
                    /\ \E k \in 1..Len(accepted) :
                          /\ accepted[k].timestamp = step'.p.currentTime
                          /\ Wanted(accepted[k]) = step'.p.command
               ELSE lastPumpCommandTime' = lastPumpCommandTime
       /\ (step.op = "callback" /\ step.arg = "error" /\ step.p.kind = "auto"
             /\ Processed /\ Wanted(latestSensorData') = step.p.command
             /\ Elapsed >= CooldownMs)
          => PublishesOnly(step.p.command)
      ]_vars

\* The publish of an automated command just failed: lastPumpCommandTime is what it
\* was, and the cooldown it measures has elapsed, so the next reading may fire at once.
C5_Witness ==
    /\ step.op = "callback" /\ step.arg = "error" /\ step.p.kind = "auto"
    /\ step.p.currentTime = now
    /\ lastPumpCommandTime = step.before
    /\ Elapsed >= CooldownMs

\* C6 (as stated): a manual command whose action is present sets lastPumpCommandTime
\* to the current time and hands a publish of that action to the transport.
C6_PresentActionResets ==
    [][(step'.op = "post" /\ step'.arg # Absent)
        => /\ lastPumpCommandTime' = now
           /\ inflight' = Append(inflight, ManualPublish(step'.arg, Len(responses) + 1))
      ]_vars

\* C6 (amended): a manual command whose action is present and not the empty string
\* sets lastPumpCommandTime to the current time and hands a publish of that action to
\* the transport, whatever the cooldown state; the outcome of that publish does not
\* touch lastPumpCommandTime.
C6_TruthyActionResets ==
    [][/\ (step'.op = "post" /\ Truthy(step'.arg))
          => /\ lastPumpCommandTime' = now
             /\ inflight' = Append(inflight, ManualPublish(step'.arg, Len(responses) + 1))
       /\ (step'.op = "callback" /\ step'.p.kind = "manual")
          => lastPumpCommandTime' = lastPumpCommandTime
      ]_vars

\* A manual command arrived inside the cooldown of an earlier command: it was
\* published all the same and lastPumpCommandTime is now.
C6_Witness ==
    /\ step.op = "post" /\ Truthy(step.arg)
    /\ step.before > 0 /\ now - step.before < CooldownMs /\ step.before < now
    /\ lastPumpCommandTime = now
    /\ Len(inflight) > 0
    /\ Last(inflight) = ManualPublish(step.arg, Len(responses))

\* C7: after a manual command dispatched at time t, no reading processed before
\* t + 30 s publishes an automated command.
C7_ManualCommandHoldsCooldown ==
    [][(Processed /\ dispatched.manual > 0 /\ now - dispatched.manual < CooldownMs)
        => PublishesNothing]_vars

Min(a, b) == IF a < b THEN a ELSE b

\* C8: the history buffer holds the last min(N, 200) accepted readings, oldest first,
\* N being the number of readings accepted so far; it never holds more than 200, and
\* the history query returns that sequence.
C8_HistoryIsLastReadings ==
    LET n == Len(accepted)
        m == Min(n, HistoryLimit)
    IN  /\ Len(historicalData) = m
        /\ Len(historicalData) <= HistoryLimit
        /\ historicalData = SubSeq(accepted, n - m + 1, n)
        /\ HistoryResponse = SubSeq(accepted, n - m + 1, n)

\* More than 200 readings were accepted and the oldest ones are gone.
C8_Witness ==
    /\ Len(accepted) > HistoryLimit + 1
    /\ Len(historicalData) = HistoryLimit
    /\ historicalData[1] = accepted[Len(accepted) - HistoryLimit + 1]
    /\ historicalData[1] # accepted[1]

\* C9: a payload JSON.parse rejects leaves latestSensorData, historicalData and
\* lastPumpCommandTime as they were and publishes nothing; the handler returns, and a
\* JSON object that arrives afterwards is accepted as a reading.
C9_MalformedChangesNothing ==
    [][/\ (step'.op = "message" /\ step'.arg = "garbage")
          => UNCHANGED <<latestSensorData, historicalData, lastPumpCommandTime,
                         inflight, accepted, responses>>
       /\ (step.op = "message" /\ step.arg = "garbage"
             /\ step'.op = "message" /\ step'.arg = "object")
          => /\ Processed
             /\ historicalData' = PushLimited(historicalData, latestSensorData')
      ]_vars

\* A malformed payload was handled after a reading had been stored and a command
\* published, and all of that is still there.
C9_Witness ==
    /\ step.op = "message" /\ step.arg = "garbage"
    /\ Len(accepted) > 0 /\ Last(historicalData) = latestSensorData
    /\ Len(inflight) > 0

\* C10: a manual command request without an action is answered 400, publishes
\* nothing and leaves lastPumpCommandTime, latestSensorData and historicalData alone.
C10_MissingActionRejected ==
    [][(step'.op = "post" /\ step'.arg = Absent)
        => /\ responses' = Append(responses, <<400>>)
           /\ UNCHANGED <<inflight, lastPumpCommandTime, latestSensorData, historicalData>>
      ]_vars

\* A request without an action was answered 400 while a reading was stored and the
\* cooldown of a recorded command was running.
C10_Witness ==
    /\ step.op = "post" /\ step.arg = Absent
    /\ Len(responses) > 0 /\ Last(responses) = <<400>>
    /\ Len(accepted) > 0
    /\ lastPumpCommandTime > 0 /\ Elapsed < CooldownMs

\* The publish of request r is with the transport and its callback has not run.
Outstanding(r) == \E i \in 1..Len(inflight) : inflight[i].kind = "manual" /\ inflight[i].req = r

\* This step is the publish callback of a manual command.
ManualCallback == step'.op = "callback" /\ step'.p.kind = "manual"

\* C11 (as stated): a manual command request whose action is present is not answered
\* by the handler itself; its one response is sent by the publish callback, 200
\* (success) when the transport confirmed and 500 (failure) when it reported an error.
C11_PresentActionAnsweredByOutcome ==
    [][/\ (step'.op = "post" /\ step'.arg # Absent) => responses' = Append(responses, <<>>)
       /\ ManualCallback =>
            responses' = [responses EXCEPT ![step'.p.req] =
                            <<IF step'.arg = "ok" THEN 200 ELSE 500>>]
      ]_vars

\* C11 (amended): a manual command request whose action is present and not the empty
\* string is not answered by the handler itself; its response is sent by the publish
\* callback, 200 (success) exactly when the transport confirmed and 500 (failure)
\* exactly when it reported an error; no request is answered while its publish is
\* outstanding, and none is ever answered twice.
C11_TruthyActionAnsweredByOutcome ==
    /\ [](\A r \in 1..Len(responses) :
             IF Outstanding(r) THEN responses[r] = <<>> ELSE Len(responses[r]) = 1)
    /\ [][/\ (step'.op = "post" /\ Truthy(step'.arg))
             => /\ responses' = Append(responses, <<>>)
                /\ Last(inflight') = ManualPublish(step'.arg, Len(responses'))
          /\ ManualCallback =>
               responses' = [responses EXCEPT ![step'.p.req] =
                               <<IF step'.arg = "ok" THEN 200 ELSE 500>>]
         ]_vars

\* The transport reported an error for a manual command and the request was answered
\* 500, once.
C11_Witness ==
    /\ step.op = "callback" /\ step.arg = "error" /\ step.p.kind = "manual"
    /\ responses[step.p.req] = <<500>>
    /\ ~Outstanding(step.p.req)

----------------------------------------------------------------------------
\* The answer is one the refresh fails on: no answer at all, or a body that is not a
\* complete weather report.
RefreshFails(shape) == shape \notin {"full-a", "full-b"}

\* C12: a weather refresh that fails (network error or malformed response) leaves
\* latestWeatherData as it was, and no weather refresh, failed or not, changes
\* latestSensorData, historicalData or lastPumpCommandTime or publishes a command.
C12_FailedRefreshKeepsSnapshot ==
    [][/\ (step'.op = "weather" /\ RefreshFails(step'.arg))
            => latestWeatherData' = latestWeatherData
       /\ step'.op \in {"fetch", "weather"}
            => UNCHANGED <<latestSensorData, historicalData, lastPumpCommandTime, inflight>>
      ]_vars

----------------------------------------------------------------------------
\* The automated publishes whose callback has not run yet
AutoOutstanding == {i \in 1..Len(inflight) : inflight[i].kind = "auto"}

\* C13: no reading is processed while an automated publish is outstanding (handed to
\* the transport, callback not yet run), so at most one automated publish is
\* outstanding at any time and no two readings fire on the same lastPumpCommandTime.
C13_NoDoubleFire ==
    /\ [](Cardinality(AutoOutstanding) <= 1)
    /\ [][Processed => AutoOutstanding = {}]_vars

----------------------------------------------------------------------------
\* C14: lastPumpCommandTime never decreases: every step, whichever handler or
\* callback takes it, leaves a value at least as large as the one it found.
C14_LastCommandTimeNeverDecreases ==
    [][lastPumpCommandTime' >= lastPumpCommandTime]_vars

----------------------------------------------------------------------------
\* lastPumpCommandTime is the processing time of an earlier reading that asked for
\* command cmd: the automated command recorded last was cmd.
RecordedCommand(cmd) ==
    /\ lastPumpCommandTime > 0
    /\ \E k \in 1..Len(accepted) :
          accepted[k].timestamp = lastPumpCommandTime /\ Wanted(accepted[k]) = cmd

\* C15: once the cooldown has elapsed after a recorded automated command, every
\* reading that meets the firing condition of that same command publishes it again;
\* nothing suppresses it because it has been sent before.
C15_RefiresAfterCooldown ==
    [][(/\ Processed
        /\ Wanted(latestSensorData') # NoCommand
        /\ RecordedCommand(Wanted(latestSensorData'))
        /\ Elapsed >= CooldownMs)
       => PublishesOnly(Wanted(latestSensorData'))]_vars

\* TURN_PUMP_ON was confirmed for a dry reading, the cooldown went by, and a second
\* dry reading with the pump still reported OFF has published TURN_PUMP_ON again.
C15_Witness ==
    /\ JustProcessed
    /\ Wanted(latestSensorData) = "TURN_PUMP_ON"
    /\ lastPumpCommandTime = step.before
    /\ RecordedCommand("TURN_PUMP_ON")
    /\ Elapsed >= CooldownMs
    /\ Len(inflight) > 0 /\ Last(inflight) = AutoPublish("TURN_PUMP_ON", now)

----------------------------------------------------------------------------
\* This step is the message handler given a JSON object.
WellFormedMessage == step'.op = "message" /\ step'.arg = "object"

\* C16: a JSON-object reading handled while now - lastPumpCommandTime < 30 s becomes
\* latestSensorData (its moisture, stamped with the current time) and is appended to
\* historicalData, but publishes nothing and leaves lastPumpCommandTime unchanged.
C16_CooldownGatesControllerOnly ==
    [][(WellFormedMessage /\ Elapsed < CooldownMs)
       => /\ latestSensorData'.soilMoisture = step'.data.soilMoisture
          /\ latestSensorData'.pumpStatus = OrDefault(step'.data.pumpStatus, "UNKNOWN")
          /\ latestSensorData'.timestamp = now
          /\ historicalData' = Append(historicalData, latestSensorData')
          /\ PublishesNothing
          /\ lastPumpCommandTime' = lastPumpCommandTime]_vars

\* A wet reading with the pump reported ON was handled 15 s after a recorded command:
\* it is the latest reading and the newest of the history, and nothing was published.
C16_Witness ==
    /\ step.op = "message" /\ step.arg = "object"
    /\ step.before > 0 /\ now - step.before < CooldownMs
    /\ Wanted(latestSensorData) = "TURN_PUMP_OFF"
    /\ latestSensorData.soilMoisture = step.data.soilMoisture
    /\ latestSensorData.timestamp = now
    /\ Len(historicalData) > 1 /\ Last(historicalData) = latestSensorData
    /\ inflight = <<>>
    /\ lastPumpCommandTime = step.before

----------------------------------------------------------------------------
\* C17: once a reading has been accepted, latestSensorData is the last element of
\* historicalData; before that, historicalData is empty and latestSensorData is the
\* initial no-data value.
C17_LatestIsNewestOfHistory ==
    IF Len(accepted) > 0
    THEN Len(historicalData) > 0 /\ latestSensorData = Last(historicalData)
    ELSE historicalData = <<>> /\ latestSensorData = InitialSensorData

\* More readings than the history holds have been accepted; the oldest were evicted
\* and the latest reading is the newest of the history.
C17_Witness ==
    /\ Len(accepted) > HistoryLimit
    /\ Len(historicalData) = HistoryLimit
    /\ latestSensorData = Last(accepted)
    /\ Last(historicalData) = Last(accepted)
    /\ historicalData[1] # accepted[1]

----------------------------------------------------------------------------
\* C18: a JSON-object reading without a pumpStatus field is stored with pumpStatus
\* 'UNKNOWN', and a reading stored with pumpStatus 'UNKNOWN' publishes nothing and
\* leaves lastPumpCommandTime alone, whatever its moisture and the elapsed time.
C18_UnknownPumpStatusIsInert ==
    [][/\ (WellFormedMessage /\ step'.data.pumpStatus = Absent)
            => Processed /\ latestSensorData'.pumpStatus = "UNKNOWN"
       /\ (Processed /\ latestSensorData'.pumpStatus = "UNKNOWN")
            => PublishesNothing /\ lastPumpCommandTime' = lastPumpCommandTime
      ]_vars

\* A dry reading without pumpStatus was handled with the cooldown elapsed: it is
\* stored as UNKNOWN and nothing was published.
C18_Witness ==
    /\ JustProcessed
    /\ step.data.pumpStatus = Absent
    /\ latestSensorData.pumpStatus = "UNKNOWN"
    /\ IsDry(latestSensorData)
    /\ now - step.before >= CooldownMs
    /\ inflight = <<>>

----------------------------------------------------------------------------
\* What the stored field is to be for the payload field x: the number x is or spells,
\* and null when x is missing, null or spells no number.
StoredField(x) ==
    IF x.t \in {"number", "decimal"} THEN x
    ELSE IF x.t = "numeral" THEN Num(x.v)
    ELSE Null

\* C19: for every JSON-object payload the stored temperature and humidity are null
\* when the field is missing, null or not numeric, and the field's number otherwise.
C19_OptionalFieldsNullOrNumber ==
    [][WellFormedMessage
       => /\ latestSensorData'.temperature = StoredField(step'.data.temperature)
          /\ latestSensorData'.humidity = StoredField(step'.data.humidity)]_vars

====
